---- MODULE Spec2Model ----
(***************************************************************************)
(* Token lifecycle of the im-backend QuickBooks integration:               *)
(*   lib/tokenStore.js   - the credential store (memory + data/tokens.json)*)
(*   lib/tokenRefresh.js - refreshAccessToken / getValidTokens             *)
(*   lib/tokenRefresh.js - checkAndRefreshTokens / scheduleTokenRefresh    *)
(*   routes/auth.js      - /auth/callback, /auth/logout, /auth/auto-refresh*)
(*   routes/ai.js, lib/ai-tools.js - the callers of getValidTokens         *)
(* Every await of the JavaScript code is a step boundary: the code between *)
(* two awaits runs atomically on the single event loop.                    *)
(***************************************************************************)
EXTENDS Integers, FiniteSets, Sequences, TLC

VARIABLES
    now,        \* Date.now(), epoch milliseconds
    tokenData,  \* tokenStore.js: the module-level in-memory credential
    file,       \* data/tokens.json: [exists, content]
    issued,     \* number of token pairs the issuer has minted so far
    served,     \* number of requests the server has accepted so far
    pc,         \* per caller of getValidTokens: where its async call stands
    last,       \* the getValidTokens call the last step completed, if any:
                \* its caller, what its refresh exchange ended with, what it
                \* returned or threw, what the boundary layer made of that
    wbuf,       \* per caller: the JSON text handed to fs.writeFile
    logoutPc,   \* POST /auth/logout: position inside clearTokens
    cb,         \* GET /auth/callback: position, realmId, exchanged tokens, JSON text
    loadPc,     \* initializeTokenStorage -> loadTokens at module load
    rejected,   \* history: a refresh was terminally rejected, no save since
    afterRej,   \* history, per caller: its call began while rejected held
    loggedOut,  \* history: a logout completed, no save since
    stored,     \* the token response the last step put into tokenData, if any
    refreshIntervalId,  \* routes/auth.js: the interval the routes track, or null
    timers,     \* the setInterval timers of scheduleTokenRefresh still active
    tick,       \* the interval callback in flight: position, JSON text
    tickDone,   \* the interval callback the last step completed, if any
    configured, \* CLIENT_ID, CLIENT_SECRET and REDIRECT_URI are all set
    reply,      \* what the last step handed back, if anything: the reply of a
                \* route, or the return value of loadTokens
    durable,    \* history: the object saveTokens last serialised, and whether
                \* its text is what the token file holds
    writeFailed,\* history: an fs.writeFile of the token file has failed
    mi          \* the getMultipleInvoices tool call: position, ids, results

vars == <<now, tokenData, file, issued, served, pc, last, wbuf,
          logoutPc, cb, loadPc, rejected, afterRej, loggedOut,
          stored, refreshIntervalId, timers, tick, tickDone,
          configured, reply, durable, writeFailed, mi>>

----------------------------------------------------------------------------
(* JavaScript values. Tokens, realm ids, type and scope strings are opaque  *)
(* non-empty strings, modelled as positive integers; 0 is the falsy number. *)

Null == -1
Undefined == -2

Truthy(v) == v > 0

Fields == {"access_token", "refresh_token", "realm_id", "expires_at",
           "token_type", "scope", "last_updated"}

EmptyTokensKeepRealm == [f \in Fields |-> IF f = "realm_id" THEN 1 ELSE Null]

EmptyTokens == [f \in Fields |-> Null]

ToJSONDropNull(td) == [f \in {g \in Fields : td[g] \notin {Undefined, Null}} |-> td[f]]

\* JSON.stringify drops the keys whose value is undefined.
ToJSON(td) == [f \in {g \in Fields : td[g] # Undefined} |-> td[f]]

\* JSON.parse, then property reads: a key the text lacks reads as undefined.
FromJSON(text) == [f \in Fields |-> IF f \in DOMAIN text THEN text[f] ELSE Undefined]

NoFile == [exists |-> FALSE, content |-> ToJSON(EmptyTokens)]

----------------------------------------------------------------------------
(* Bounds of the model *)

MaxTick == 1      \* clock ticks explored after the start instant
TickMs == 200000  \* milliseconds per clock tick
MaxServed == 2    \* requests and timer callbacks the server runs

StartMs == 2 * TickMs

\* POST /ai/invoke, POST /ai/stream, and a tool run (getQboClientOrError)
Callers == {"invoke", "stream", "tool"}

----------------------------------------------------------------------------
(* Expiry policy, tokenStore.js *)

MarginMs == 300000

hasValidTokensNoMargin(td, t) ==
    IF ~Truthy(td.access_token) \/ ~Truthy(td.realm_id) THEN FALSE
    ELSE IF Truthy(td.expires_at) /\ t > td.expires_at THEN FALSE
    ELSE TRUE

hasValidTokensIgnoreExpiry(td, t) ==
    IF ~Truthy(td.access_token) \/ ~Truthy(td.realm_id) THEN FALSE
    ELSE TRUE

hasValidTokensNeedsRefreshToken(td, t) ==
    IF ~Truthy(td.access_token) \/ ~Truthy(td.realm_id) THEN FALSE
    ELSE IF ~Truthy(td.refresh_token) THEN FALSE
    ELSE IF Truthy(td.expires_at) /\ t > td.expires_at - MarginMs THEN FALSE
    ELSE TRUE

hasValidTokens(td, t) ==
    IF ~Truthy(td.access_token) \/ ~Truthy(td.realm_id) THEN FALSE
    ELSE IF Truthy(td.expires_at) /\ t > td.expires_at - MarginMs THEN FALSE
    ELSE TRUE

isTokenExpired(td, t) ==
    IF ~Truthy(td.expires_at) THEN FALSE
    ELSE t > td.expires_at - MarginMs

getTokenInfoWithToken(td, t) ==
    [hasTokens       |-> td.access_token,
     hasRefreshToken |-> Truthy(td.refresh_token),
     realmId         |-> td.realm_id,
     expiresAt       |-> td.expires_at,
     isExpired       |-> isTokenExpired(td, t),
     isValid         |-> hasValidTokens(td, t),
     lastUpdated     |-> td.last_updated,
     tokenType       |-> td.token_type,
     scope           |-> td.scope]

\* getTokenInfo, lines 197-209: the snapshot /auth/status and /auth/tokens send
getTokenInfo(td, t) ==
    [hasTokens       |-> Truthy(td.access_token),
     hasRefreshToken |-> Truthy(td.refresh_token),
     realmId         |-> td.realm_id,
     expiresAt       |-> td.expires_at,
     isExpired       |-> isTokenExpired(td, t),
     isValid         |-> hasValidTokens(td, t),
     lastUpdated     |-> td.last_updated,
     tokenType       |-> td.token_type,
     scope           |-> td.scope]

----------------------------------------------------------------------------
(* loadTokens, tokenStore.js: how a read of the token file ends *)

\* a file whose text is not JSON: JSON.parse throws
Garbage == [garbage |-> 1]

Parses(text) == DOMAIN text \subseteq Fields

ReadOutcomeRaises(f) ==
    IF ~f.exists THEN "raised"
    ELSE IF ~Parses(f.content) THEN "raised"
    ELSE IF ~Truthy(FromJSON(f.content).access_token)
            \/ ~Truthy(FromJSON(f.content).realm_id) THEN "invalid"
    ELSE "loaded"

\* lines 82-100: readFile or JSON.parse throwing ends in the outer catch,
\* which returns null; a record without access_token or realm_id returns
\* null at line 88; otherwise the record is returned
ReadOutcome(f) ==
    IF ~f.exists THEN "unreadable"
    ELSE IF ~Parses(f.content) THEN "unparseable"
    ELSE IF ~Truthy(FromJSON(f.content).access_token)
            \/ ~Truthy(FromJSON(f.content).realm_id) THEN "invalid"
    ELSE "loaded"

----------------------------------------------------------------------------
(* Store writes, tokenStore.js *)

\* saveTokens, lines 41-53: the credential built from a token response
SavedTokens(tokens, realmId, t) ==
    [access_token  |-> tokens.access_token,
     refresh_token |-> tokens.refresh_token,
     realm_id      |-> realmId,
     expires_at    |-> IF Truthy(tokens.expires_in)
                       THEN t + tokens.expires_in * 1000 ELSE Null,
     token_type    |-> tokens.token_type,
     scope         |-> tokens.scope,
     last_updated  |-> t]

UpdatedTokensReplaceRefresh(td, newTokens, t) ==
    [td EXCEPT
       !.access_token  = newTokens.access_token,
       !.expires_at    = IF Truthy(newTokens.expires_in)
                         THEN t + newTokens.expires_in * 1000 ELSE td.expires_at,
       !.last_updated  = t,
       !.refresh_token = newTokens.refresh_token]

\* updateTokens, lines 137-148: the merge of a refresh response
UpdatedTokens(td, newTokens, t) ==
    [td EXCEPT
       !.access_token  = newTokens.access_token,
       !.expires_at    = IF Truthy(newTokens.expires_in)
                         THEN t + newTokens.expires_in * 1000 ELSE td.expires_at,
       !.last_updated  = t,
       !.refresh_token = IF Truthy(newTokens.refresh_token)
                         THEN newTokens.refresh_token ELSE td.refresh_token]

----------------------------------------------------------------------------
(* The issuer (Intuit OAuth2 token endpoint), an external collaborator *)

ExpiresInChoices == {Undefined, 400}   \* seconds

TokenResponse(at, rt, ein) ==
    [access_token |-> at, refresh_token |-> rt, expires_in |-> ein,
     token_type |-> 1, scope |-> 1]

NoData == TokenResponse(Undefined, Undefined, Undefined)

\* What axios.post resolves or rejects with; status 0 is "no HTTP response"
\* (network error or timeout), 200 with NoData a body without access_token.
RefreshResponses(n) ==
    { [status |-> s, data |-> NoData] : s \in {0, 200, 400, 401, 500} }
    \cup { [status |-> 200, data |-> TokenResponse(n + 1, rt, ein)] :
             rt \in {n + 1, Undefined}, ein \in ExpiresInChoices }

ExchangeOkAnyStatus(resp) == resp.status # 0

\* getAccessToken line 51: tokenResponse.ok; fetch rejects without a response
ExchangeOk(resp) == resp.status = 200

\* What fetch in getAccessToken yields; a non-ok status makes it throw. The
\* JSON body of an ok answer is returned as it is, whatever it holds: the
\* last response is a body with a refresh_token and no access_token.
CodeResponses(n) ==
    { [status |-> s, data |-> NoData] : s \in {0, 400} }
    \cup { [status |-> 200, data |-> TokenResponse(n + 1, rt, ein)] :
             rt \in {n + 1, Undefined}, ein \in ExpiresInChoices }
    \cup { [status |-> 200, data |-> TokenResponse(Undefined, n + 1, 400)] }

----------------------------------------------------------------------------
(* tokenRefresh.js: error messages and the catch block of refreshAccessToken *)

ErrInvalidRefresh == "Invalid refresh token - re-authentication required"
ErrUnauthorized == "Unauthorized - check client credentials"
ErrRefreshFailed == "Token refresh failed"
ErrNoRefreshToken == "Token expired and no refresh token available"
ErrNoTokens == "No tokens available - authentication required"

RefreshErrorAnyStatus(status) ==
    IF status # 0 THEN ErrInvalidRefresh ELSE ErrRefreshFailed

RefreshErrorNo401(status) ==
    IF status # 0 /\ status = 400 THEN ErrInvalidRefresh ELSE ErrRefreshFailed

\* lines 76-92: error.response is set exactly when the issuer answered
RefreshError(status) ==
    IF status # 0 /\ status = 400 THEN ErrInvalidRefresh
    ELSE IF status # 0 /\ status = 401 THEN ErrUnauthorized
    ELSE ErrRefreshFailed

CauseOf(status) ==
    CASE status = 0   -> "network"
      [] status = 400 -> "http400"
      [] status = 401 -> "http401"
      [] OTHER        -> "http5xx"

\* What getValidTokens hands its caller: the object getTokens() returns at
\* that instant (the tokenData of the state the call completes in), or an
\* Error with a message.
Returned == [ok |-> TRUE, msg |-> ""]
Thrown(msg) == [ok |-> FALSE, msg |-> msg]
NoResult == [ok |-> FALSE, msg |-> ""]

----------------------------------------------------------------------------
(* The boundary layers that call getValidTokens *)

NoOut == [kind |-> "none", needsAuth |-> FALSE, detail |-> ""]

\* routes/ai.js, POST /invoke and POST /stream: any failure is answered 400
\* "QuickBooks authentication required ... visit /auth/start", needsAuth: true
RouteOutcome(r) ==
    IF r.ok THEN [kind |-> "proceed", needsAuth |-> FALSE, detail |-> ""]
    ELSE [kind |-> "http400", needsAuth |-> TRUE, detail |-> ""]

\* lib/ai-tools.js, getQboClientOrError: any failure is rethrown as
\* "Authentication required: <message>. Please complete OAuth flow first ..."
ToolOutcome(r) ==
    IF r.ok THEN [kind |-> "proceed", needsAuth |-> FALSE, detail |-> ""]
    ELSE [kind |-> "thrown", needsAuth |-> TRUE, detail |-> r.msg]

Boundary(c, r) == IF c = "tool" THEN ToolOutcome(r) ELSE RouteOutcome(r)

----------------------------------------------------------------------------
(* The scheduled refresh, tokenRefresh.js, and the interval the routes track *)

StoppedTimersNoop(ts, intervalId) == ts

\* stopScheduledRefresh, lines 201-205: clearInterval of a truthy id
StoppedTimers(ts, intervalId) ==
    IF Truthy(intervalId) THEN ts \ {intervalId} ELSE ts

\* the Timeout object setInterval returns (line 188): one no active timer is.
\* Every timer is set by a request the server ran, so MaxServed + 1 suffice.
NewTimer(ts) ==
    CHOOSE i \in 1..(MaxServed + 1) :
        i \notin ts /\ \A j \in 1..(i - 1) : j \in ts

ScheduledTimersNone(ts) == ts

\* scheduleTokenRefresh, lines 183-198: a new interval is set; none is cleared
ScheduledTimers(ts) == ts \cup {NewTimer(ts)}

\* checkAndRefreshTokens, lines 127-139: whether the callback goes on to
\* refreshAccessToken
checkNeedsRefresh(td, t) ==
    IF ~Truthy(td.access_token) THEN FALSE
    ELSE isTokenExpired(td, t) /\ Truthy(td.refresh_token)

\* getValidTokens, lines 99-108: whether the call goes on to refreshAccessToken
getValidNeedsRefresh(td, t) ==
    IF hasValidTokens(td, t) THEN FALSE
    ELSE isTokenExpired(td, t) /\ Truthy(td.refresh_token)

TickOutcomeRethrow(refreshed, failed) ==
    [returned |-> refreshed /\ ~failed, raised |-> failed]

\* checkAndRefreshTokens lines 135-144 and the callback's own try/catch
\* (189-193): a refresh that succeeded gives true, an error is logged and
\* gives false; nothing is rethrown.
TickOutcome(refreshed, failed) ==
    [returned |-> refreshed /\ ~failed, raised |-> FALSE]

----------------------------------------------------------------------------
(* Initial state: the module has just been imported. tokenData is the      *)
(* literal of tokenStore.js:15-23, loadTokens has been started and not      *)
(* awaited, and data/tokens.json is whatever an earlier run left behind.    *)

\* a record left by an earlier run: complete, refreshable, inside the margin
StaleRecord ==
    [access_token |-> 1, refresh_token |-> 1, realm_id |-> 1,
     expires_at |-> StartMs + TickMs, token_type |-> 1, scope |-> 1,
     last_updated |-> TickMs]

\* a record without realm_id: loadTokens rejects it
InvalidRecord == [StaleRecord EXCEPT !.realm_id = Undefined]

InitFiles ==
    { NoFile,
      [exists |-> TRUE, content |-> ToJSON(StaleRecord)],
      [exists |-> TRUE, content |-> ToJSON(InvalidRecord)] }

NoCall == [caller |-> "none", cause |-> "none", result |-> NoResult,
           out |-> NoOut, afterRej |-> FALSE]

CbIdle == [pc |-> "idle", realm |-> Undefined, tokens |-> NoData,
           status |-> 0, buf |-> ToJSON(EmptyTokens)]

NoStored == [op |-> "none", data |-> NoData]

NoInfo == getTokenInfo(EmptyTokens, 0)

NoReply == [route |-> "none", ok |-> FALSE, why |-> "", enabled |-> FALSE,
            info |-> NoInfo]

\* the reply of a route: ok is a 2xx status
Reply(route, ok, why) ==
    [route |-> route, ok |-> ok, why |-> why, enabled |-> FALSE, info |-> NoInfo]

\* the value loadTokens returns: the tokens (ok) or null
LoadReply(why) == Reply("loadTokens", why = "loaded", why)

NoDurable == [obj |-> EmptyTokens, state |-> "none"]

MaxIds == 2

InvoiceIds == {1, 2}

\* the invoiceIds argument: any list, repeated IDs included
IdLists == UNION {[1..n -> InvoiceIds] : n \in 0..MaxIds}

\* what qbo.getInvoice hands its callback: (null, invoice), (null, null), or
\* an err (erred) with or without message and with or without a
\* Fault.Error[0], which carries Message and code
NoErr == [message |-> "", fault |-> "", code |-> ""]

Errs == { e \in [message : {"", "socket hang up"},
                 fault : {"", "No entity found"},
                 code : {"", "610"}] : (e.code = "610") <=> (e.fault # "") }

Answers == [err : Errs, invoice : {Null}, erred : {TRUE}]
             \cup [err : {NoErr}, invoice : {Null, 1}, erred : {FALSE}]

\* lines 146-153: the Error the promise is rejected with
Rejection(a) ==
    IF a.erred
    THEN [text |-> IF a.err.message # "" THEN a.err.message
                   ELSE IF a.err.fault # "" THEN a.err.fault
                   ELSE "Unknown error",
          code |-> IF a.err.code # "" THEN a.err.code ELSE "UNKNOWN"]
    ELSE [text |-> "Invoice not found", code |-> ""]

\* line 162: message.includes('not found') || message.includes('No entity found')
IsNotFound(msg) == msg.text \in {"Invoice not found", "No entity found"}

RecordedAbortOnError(m, a) ==
    LET id == m.ids[m.i]
    IN IF ~a.erred /\ Truthy(a.invoice)
       THEN [m EXCEPT !.found = Append(@, [Id |-> id]), !.summary.found = @ + 1,
                      !.i = @ + 1]
       ELSE IF IsNotFound(Rejection(a))
       THEN [m EXCEPT !.notFound = Append(@, id), !.summary.notFound = @ + 1,
                      !.i = @ + 1]
       ELSE [m EXCEPT !.errors = Append(@, [invoiceId |-> id, error |-> Rejection(a)]),
                      !.summary.errors = @ + 1,
                      !.i = Len(m.ids) + 1]

\* lines 142-173, one turn of the loop: the answer for ids[i] is recorded
Recorded(m, a) ==
    LET id == m.ids[m.i]
    IN IF ~a.erred /\ Truthy(a.invoice)
       THEN [m EXCEPT !.found = Append(@, [Id |-> id]), !.summary.found = @ + 1,
                      !.i = @ + 1]
       ELSE IF IsNotFound(Rejection(a))
       THEN [m EXCEPT !.notFound = Append(@, id), !.summary.notFound = @ + 1,
                      !.i = @ + 1]
       ELSE [m EXCEPT !.errors = Append(@, [invoiceId |-> id, error |-> Rejection(a)]),
                      !.summary.errors = @ + 1,
                      !.i = @ + 1]

\* lines 176-198 once the loop has ended: the parts of responseMessage
Completed(m) ==
    IF m.i > Len(m.ids)
    THEN [m EXCEPT !.pc = "done",
                   !.responseMessage =
                       {k \in {"found", "notFound", "errors"} : m.summary[k] > 0}]
    ELSE m

MiIdle == [pc |-> "idle", ids |-> <<>>, i |-> 0, found |-> <<>>,
           notFound |-> <<>>, errors |-> <<>>,
           summary |-> [totalRequested |-> 0, found |-> 0, notFound |-> 0,
                        errors |-> 0],
           responseMessage |-> {}]

TickIdle == [pc |-> "idle", buf |-> ToJSON(EmptyTokens)]

NoTick == [cause |-> "none", returned |-> FALSE, raised |-> FALSE]

Init ==
    /\ now = StartMs
    /\ tokenData = EmptyTokens
    /\ file \in InitFiles
    /\ issued = 1
    /\ served = 0
    /\ pc = [c \in Callers |-> "idle"]
    /\ last = NoCall
    /\ wbuf = [c \in Callers |-> ToJSON(EmptyTokens)]
    /\ logoutPc = "idle"
    /\ cb = CbIdle
    /\ loadPc = "access"
    /\ rejected = FALSE
    /\ afterRej = [c \in Callers |-> FALSE]
    /\ loggedOut = FALSE
    /\ stored = NoStored
    /\ refreshIntervalId = Null
    /\ timers = {}
    /\ tick = TickIdle
    /\ tickDone = NoTick
    /\ configured = TRUE
    /\ reply = NoReply
    /\ durable = NoDurable
    /\ writeFailed = FALSE
    /\ mi = MiIdle

----------------------------------------------------------------------------
(* Time. A tick is TickMs (minutes) long; a file-system call settles in far *)
(* less, so no tick passes while one is pending. A request to the issuer   *)
(* can stay unanswered across ticks.                                        *)

Tick ==
    /\ now < StartMs + MaxTick * TickMs
    /\ loadPc = "done"
    /\ logoutPc = "idle"
    /\ cb.pc \in {"idle", "awaitExchange"}
    /\ tick.pc # "awaitWrite"
    /\ \A c \in Callers : pc[c] # "awaitWrite"
    /\ now' = now + TickMs
    /\ last' = NoCall
    /\ UNCHANGED <<tokenData, file, issued, served, pc, wbuf,
                   logoutPc, cb, loadPc, rejected, afterRej, loggedOut>>
    /\ stored' = NoStored
    /\ tickDone' = NoTick
    /\ UNCHANGED <<refreshIntervalId, timers, tick>>
    /\ reply' = NoReply
    /\ UNCHANGED <<configured, durable, writeFailed, mi>>

----------------------------------------------------------------------------
(* loadTokens, started by initializeTokenStorage at module load *)

\* lines 71-79: await fs.access; a missing file ends the load with null
LoadAccess ==
    /\ loadPc = "access"
    /\ loadPc' = IF file.exists THEN "read" ELSE "done"
    /\ last' = NoCall
    /\ UNCHANGED <<now, tokenData, file, issued, served, pc, wbuf,
                   logoutPc, cb, rejected, afterRej, loggedOut>>
    /\ stored' = NoStored
    /\ tickDone' = NoTick
    /\ UNCHANGED <<refreshIntervalId, timers, tick>>
    /\ reply' = IF file.exists THEN NoReply ELSE LoadReply("absent")
    /\ UNCHANGED <<configured, durable, writeFailed, mi>>

\* lines 82-101: await fs.readFile, parse, validate, assign. A file removed
\* since fs.access makes readFile throw, which the catch turns into null.
LoadRead ==
    /\ loadPc = "read"
    /\ loadPc' = "done"
    /\ LET loadedTokens == FromJSON(file.content) IN
       tokenData' = IF /\ file.exists
                       /\ Truthy(loadedTokens.access_token)
                       /\ Truthy(loadedTokens.realm_id)
                    THEN loadedTokens ELSE tokenData
    /\ last' = NoCall
    /\ UNCHANGED <<now, file, issued, served, pc, wbuf,
                   logoutPc, cb, rejected, afterRej, loggedOut>>
    /\ stored' = NoStored
    /\ tickDone' = NoTick
    /\ UNCHANGED <<refreshIntervalId, timers, tick>>
    /\ reply' = LoadReply(ReadOutcome(file))
    /\ UNCHANGED <<configured, durable, writeFailed, mi>>

----------------------------------------------------------------------------
(* getValidTokens, tokenRefresh.js, called through a boundary layer *)

Finish(c, why, r, began) ==
    /\ pc' = [pc EXCEPT ![c] = "idle"]
    /\ afterRej' = [afterRej EXCEPT ![c] = FALSE]
    /\ last' = [caller |-> c, cause |-> why, result |-> r,
                out |-> Boundary(c, r), afterRej |-> began]

\* The synchronous head of getValidTokens (lines 96-116) and, when it goes
\* on to refresh, of refreshAccessToken up to its await of axios.post
\* (lines 38-60).
GetValidTokens(c) ==
    /\ pc[c] = "idle"
    /\ served < MaxServed
    /\ served' = served + 1
    /\ IF hasValidTokens(tokenData, now)
       THEN Finish(c, "valid", Returned, rejected)
       ELSE IF isTokenExpired(tokenData, now)
       THEN IF Truthy(tokenData.refresh_token)
            THEN /\ pc' = [pc EXCEPT ![c] = "awaitIssuer"]
                 /\ afterRej' = [afterRej EXCEPT ![c] = rejected]
                 /\ last' = NoCall
            ELSE Finish(c, "norefresh", Thrown(ErrNoRefreshToken), rejected)
       ELSE Finish(c, "notokens", Thrown(ErrNoTokens), rejected)
    /\ UNCHANGED <<now, tokenData, file, issued, wbuf, logoutPc, cb, loadPc,
                   rejected, loggedOut>>
    /\ stored' = NoStored
    /\ tickDone' = NoTick
    /\ UNCHANGED <<refreshIntervalId, timers, tick>>
    /\ reply' = NoReply
    /\ UNCHANGED <<configured, durable, writeFailed, mi>>

\* The issuer's answer reaches refreshAccessToken: lines 62-72 on success,
\* up to the await of fs.writeFile inside updateTokens (lines 137-154);
\* lines 76-92 and the rethrow of getValidTokens (118-121) on failure.
RefreshResponds(c, resp) ==
    /\ pc[c] = "awaitIssuer"
    /\ IF resp.status = 200 /\ Truthy(resp.data.access_token)
       THEN /\ issued' = issued + 1
            /\ tokenData' = UpdatedTokens(tokenData, resp.data, now)
            /\ wbuf' = [wbuf EXCEPT ![c] = ToJSON(tokenData')]
            /\ pc' = [pc EXCEPT ![c] = "awaitWrite"]
            /\ last' = NoCall
            /\ stored' = [op |-> "update", data |-> resp.data]
            /\ UNCHANGED <<rejected, afterRej>>
       ELSE /\ IF resp.status = 200
               THEN Finish(c, "malformed", Thrown(ErrRefreshFailed), afterRej[c])
               ELSE Finish(c, CauseOf(resp.status),
                           Thrown(RefreshError(resp.status)), afterRej[c])
            /\ rejected' = (rejected \/ resp.status \in {400, 401})
            /\ stored' = NoStored
            /\ UNCHANGED <<issued, tokenData, wbuf>>
    /\ tickDone' = NoTick
    /\ UNCHANGED <<now, file, served, logoutPc, cb, loadPc, loggedOut,
                   refreshIntervalId, timers, tick>>
    /\ reply' = NoReply
    /\ UNCHANGED <<configured, durable, writeFailed, mi>>

\* fs.writeFile of updateTokens settles (lines 154-163); then
\* refreshAccessToken returns and getValidTokens returns getTokens() (109).
UpdateWritten(c, written) ==
    /\ pc[c] = "awaitWrite"
    /\ wbuf' = [wbuf EXCEPT ![c] = ToJSON(EmptyTokens)]
    /\ IF written
       THEN /\ file' = [exists |-> TRUE, content |-> wbuf[c]]
            /\ Finish(c, "ok", Returned, afterRej[c])
       ELSE /\ file' = file
            /\ Finish(c, "storage", Thrown(ErrRefreshFailed), afterRej[c])
    /\ UNCHANGED <<now, tokenData, issued, served, logoutPc, cb, loadPc,
                   rejected, loggedOut>>
    /\ stored' = NoStored
    /\ tickDone' = NoTick
    /\ UNCHANGED <<refreshIntervalId, timers, tick>>
    /\ reply' = NoReply
    /\ durable' = IF written THEN NoDurable ELSE durable
    /\ writeFailed' = (writeFailed \/ ~written)
    /\ UNCHANGED <<configured, mi>>

----------------------------------------------------------------------------
(* POST /auth/logout -> clearTokens, tokenStore.js *)

\* routes/auth.js lines 226-230: the tracked interval is stopped; then
\* clearTokens lines 170-182: the in-memory reset, up to the await of fs.unlink
LogoutClear ==
    /\ logoutPc = "idle"
    /\ served < MaxServed
    /\ served' = served + 1
    /\ timers' = StoppedTimers(timers, refreshIntervalId)
    /\ refreshIntervalId' = Null
    /\ stored' = NoStored
    /\ tickDone' = NoTick
    /\ tick' = tick
    /\ tokenData' = EmptyTokens
    /\ logoutPc' = "awaitUnlink"
    /\ last' = NoCall
    /\ UNCHANGED <<now, file, issued, pc, wbuf, cb,
                   loadPc, rejected, afterRej, loggedOut>>
    /\ reply' = NoReply
    /\ UNCHANGED <<configured, durable, writeFailed, mi>>

\* lines 182-189: unlink settles (a missing file is not an error)
LogoutUnlinked ==
    /\ logoutPc = "awaitUnlink"
    /\ file' = NoFile
    /\ logoutPc' = "idle"
    /\ loggedOut' = TRUE
    /\ last' = NoCall
    /\ UNCHANGED <<now, tokenData, issued, served, pc, wbuf, cb,
                   loadPc, rejected, afterRej>>
    /\ stored' = NoStored
    /\ tickDone' = NoTick
    /\ UNCHANGED <<refreshIntervalId, timers, tick>>
    /\ reply' = Reply("logout", TRUE, "cleared")
    /\ durable' = NoDurable
    /\ UNCHANGED <<configured, writeFailed, mi>>

----------------------------------------------------------------------------
(* GET /auth/callback -> getAccessToken -> storeTokens -> saveTokens *)

\* routes/auth.js lines 36-47: a request without code is answered 400;
\* realmId is read from the query unchecked. getAccessToken begins with
\* validateOAuthConfig (oauth.js lines 4-11, 36), which throws before any
\* request is made when the configuration is incomplete.
CallbackStart(code, realmId) ==
    /\ cb.pc = "idle"
    /\ served < MaxServed
    /\ served' = served + 1
    /\ IF ~Truthy(code)
       THEN /\ cb' = cb
            /\ reply' = Reply("callback", FALSE, "nocode")
       ELSE IF ~configured
       THEN /\ cb' = cb
            /\ reply' = Reply("callback", FALSE, "config")
       ELSE /\ cb' = [CbIdle EXCEPT !.pc = "awaitExchange", !.realm = realmId]
            /\ reply' = NoReply
    /\ last' = NoCall
    /\ UNCHANGED <<now, tokenData, file, issued, pc, wbuf,
                   logoutPc, loadPc, rejected, afterRej, loggedOut>>
    /\ stored' = NoStored
    /\ tickDone' = NoTick
    /\ UNCHANGED <<refreshIntervalId, timers, tick>>
    /\ UNCHANGED <<configured, durable, writeFailed, mi>>

\* oauth.js getAccessToken lines 51-56; on success saveTokens begins and
\* awaits ensureDataDirectory (tokenStore.js line 39)
CallbackExchanged(resp) ==
    /\ cb.pc = "awaitExchange"
    /\ IF ExchangeOk(resp)
       THEN /\ issued' = issued + 1
            /\ cb' = [cb EXCEPT !.pc = "awaitDir", !.tokens = resp.data,
                                !.status = resp.status]
            /\ reply' = NoReply
       ELSE /\ cb' = CbIdle
            /\ issued' = issued
            /\ reply' = Reply("callback", FALSE, "exchange")
    /\ last' = NoCall
    /\ UNCHANGED <<now, tokenData, file, served, pc, wbuf,
                   logoutPc, loadPc, rejected, afterRej, loggedOut>>
    /\ stored' = NoStored
    /\ tickDone' = NoTick
    /\ UNCHANGED <<refreshIntervalId, timers, tick>>
    /\ UNCHANGED <<configured, durable, writeFailed, mi>>

\* saveTokens lines 41-56: build and assign tokenData, await fs.writeFile
CallbackSave ==
    /\ cb.pc = "awaitDir"
    /\ tokenData' = SavedTokens(cb.tokens, cb.realm, now)
    /\ cb' = [cb EXCEPT !.pc = "awaitWrite", !.buf = ToJSON(tokenData')]
    /\ rejected' = FALSE
    /\ afterRej' = [c \in Callers |-> FALSE]
    /\ last' = NoCall
    /\ loggedOut' = FALSE
    /\ stored' = [op |-> "save", data |-> cb.tokens]
    /\ tickDone' = NoTick
    /\ UNCHANGED <<now, file, issued, served, pc, wbuf, logoutPc, loadPc,
                   refreshIntervalId, timers, tick>>
    /\ reply' = NoReply
    /\ durable' = [obj |-> tokenData', state |-> "pending"]
    /\ UNCHANGED <<configured, writeFailed, mi>>

\* saveTokens lines 56-65: the write settles; a failure is rethrown to the
\* route's catch. After a save, routes/auth.js lines 52-56 replace the
\* tracked interval by a new one.
CallbackWritten(written) ==
    /\ cb.pc = "awaitWrite"
    /\ IF written
       THEN /\ timers' = ScheduledTimers(StoppedTimers(timers, refreshIntervalId))
            /\ refreshIntervalId' = NewTimer(StoppedTimers(timers, refreshIntervalId))
       ELSE UNCHANGED <<timers, refreshIntervalId>>
    /\ stored' = NoStored
    /\ tickDone' = NoTick
    /\ tick' = tick
    /\ file' = IF written THEN [exists |-> TRUE, content |-> cb.buf] ELSE file
    /\ loggedOut' = (loggedOut /\ ~written)
    /\ cb' = CbIdle
    /\ last' = NoCall
    /\ UNCHANGED <<now, tokenData, issued, served, pc, wbuf,
                   logoutPc, loadPc, rejected, afterRej>>
    /\ reply' = Reply("callback", written, IF written THEN "saved" ELSE "storage")
    /\ durable' = IF written /\ durable.state = "pending"
                  THEN [durable EXCEPT !.state = "landed"] ELSE NoDurable
    /\ writeFailed' = (writeFailed \/ ~written)
    /\ UNCHANGED <<configured, mi>>

----------------------------------------------------------------------------
(* POST /auth/auto-refresh, routes/auth.js, and scheduleTokenRefresh *)

\* lines 254-258: action "start" stops the tracked interval and sets a new one
AutoRefreshStart ==
    /\ served < MaxServed
    /\ served' = served + 1
    /\ timers' = ScheduledTimers(StoppedTimers(timers, refreshIntervalId))
    /\ refreshIntervalId' = NewTimer(StoppedTimers(timers, refreshIntervalId))
    /\ last' = NoCall
    /\ stored' = NoStored
    /\ tickDone' = NoTick
    /\ UNCHANGED <<now, tokenData, file, issued, pc, wbuf, logoutPc, cb, loadPc,
                   rejected, afterRej, loggedOut, tick>>
    /\ reply' = Reply("autoStart", TRUE, "started")
    /\ UNCHANGED <<configured, durable, writeFailed, mi>>

\* lines 265-269: action "stop"
AutoRefreshStop ==
    /\ served < MaxServed
    /\ served' = served + 1
    /\ timers' = StoppedTimers(timers, refreshIntervalId)
    /\ refreshIntervalId' = Null
    /\ last' = NoCall
    /\ stored' = NoStored
    /\ tickDone' = NoTick
    /\ UNCHANGED <<now, tokenData, file, issued, pc, wbuf, logoutPc, cb, loadPc,
                   rejected, afterRej, loggedOut, tick>>
    /\ reply' = Reply("autoStop", TRUE, "stopped")
    /\ UNCHANGED <<configured, durable, writeFailed, mi>>

\* scheduleTokenRefresh called by other code than the routes: the interval
\* it returns is the caller's, the routes' refreshIntervalId does not see it.
ScheduleDirect ==
    /\ served < MaxServed
    /\ served' = served + 1
    /\ timers' = ScheduledTimers(timers)
    /\ last' = NoCall
    /\ stored' = NoStored
    /\ tickDone' = NoTick
    /\ UNCHANGED <<now, tokenData, file, issued, pc, wbuf, logoutPc, cb, loadPc,
                   rejected, afterRej, loggedOut, refreshIntervalId, tick>>
    /\ reply' = NoReply
    /\ UNCHANGED <<configured, durable, writeFailed, mi>>

----------------------------------------------------------------------------
(* GET /auth/status, routes/auth.js *)

\* lines 110-138: validateOAuthConfig, then the snapshot and !!refreshIntervalId
Status ==
    /\ served < MaxServed
    /\ served' = served + 1
    /\ reply' = IF ~configured THEN Reply("status", FALSE, "not_configured")
                ELSE [route |-> "status", ok |-> TRUE, why |-> "configured",
                      enabled |-> Truthy(refreshIntervalId),
                      info |-> getTokenInfo(tokenData, now)]
    /\ last' = NoCall
    /\ stored' = NoStored
    /\ tickDone' = NoTick
    /\ UNCHANGED <<now, tokenData, file, issued, pc, wbuf, logoutPc, cb, loadPc,
                   rejected, afterRej, loggedOut, refreshIntervalId, timers, tick,
                   configured, durable, writeFailed, mi>>

----------------------------------------------------------------------------
(* The process is stopped and started again: every module-level variable   *)
(* is back at its initial value, every pending call and timer is gone, the  *)
(* token file and the environment stay, and loadTokens is started again.    *)

Restart ==
    /\ served < MaxServed
    /\ served' = served + 1
    /\ tokenData' = EmptyTokens
    /\ pc' = [c \in Callers |-> "idle"]
    /\ wbuf' = [c \in Callers |-> ToJSON(EmptyTokens)]
    /\ afterRej' = [c \in Callers |-> FALSE]
    /\ logoutPc' = "idle"
    /\ cb' = CbIdle
    /\ loadPc' = "access"
    /\ refreshIntervalId' = Null
    /\ timers' = {}
    /\ tick' = TickIdle
    /\ last' = NoCall
    /\ stored' = NoStored
    /\ tickDone' = NoTick
    /\ reply' = NoReply
    /\ durable' = IF durable.state = "landed" THEN durable ELSE NoDurable
    /\ UNCHANGED <<now, file, issued, rejected, loggedOut, configured,
                   writeFailed, mi>>

----------------------------------------------------------------------------
(* The interval callback: checkAndRefreshTokens. One callback is followed  *)
(* at a time.                                                               *)

TickFinish(why, refreshed, failed) ==
    /\ tick' = TickIdle
    /\ tickDone' = [cause |-> why,
                    returned |-> TickOutcome(refreshed, failed).returned,
                    raised |-> TickOutcome(refreshed, failed).raised]

\* lines 127-139: the synchronous head, and that of refreshAccessToken up to
\* its await of axios.post (lines 38-60)
TimerFires(id) ==
    /\ id \in timers
    /\ tick.pc = "idle"
    /\ served < MaxServed
    /\ served' = served + 1
    /\ IF checkNeedsRefresh(tokenData, now)
       THEN /\ tick' = [tick EXCEPT !.pc = "awaitIssuer"]
            /\ tickDone' = NoTick
       ELSE TickFinish(IF Truthy(tokenData.access_token)
                       THEN "notneeded" ELSE "notokens", FALSE, FALSE)
    /\ last' = NoCall
    /\ stored' = NoStored
    /\ UNCHANGED <<now, tokenData, file, issued, pc, wbuf, logoutPc, cb, loadPc,
                   rejected, afterRej, loggedOut, refreshIntervalId, timers>>
    /\ reply' = NoReply
    /\ UNCHANGED <<configured, durable, writeFailed, mi>>

\* the issuer's answer: refreshAccessToken lines 62-72 and updateTokens up to
\* its await of fs.writeFile on success, lines 76-92 and the catch of
\* checkAndRefreshTokens (141-144) on failure
TimerRefreshResponds(resp) ==
    /\ tick.pc = "awaitIssuer"
    /\ IF resp.status = 200 /\ Truthy(resp.data.access_token)
       THEN /\ issued' = issued + 1
            /\ tokenData' = UpdatedTokens(tokenData, resp.data, now)
            /\ tick' = [pc |-> "awaitWrite", buf |-> ToJSON(tokenData')]
            /\ tickDone' = NoTick
            /\ stored' = [op |-> "update", data |-> resp.data]
            /\ rejected' = rejected
       ELSE /\ TickFinish(IF resp.status = 200 THEN "malformed"
                          ELSE CauseOf(resp.status), FALSE, TRUE)
            /\ rejected' = (rejected \/ resp.status \in {400, 401})
            /\ stored' = NoStored
            /\ UNCHANGED <<issued, tokenData>>
    /\ last' = NoCall
    /\ UNCHANGED <<now, file, served, pc, wbuf, logoutPc, cb, loadPc,
                   afterRej, loggedOut, refreshIntervalId, timers>>
    /\ reply' = NoReply
    /\ UNCHANGED <<configured, durable, writeFailed, mi>>

\* fs.writeFile of updateTokens settles (lines 154-163)
TimerUpdateWritten(written) ==
    /\ tick.pc = "awaitWrite"
    /\ IF written
       THEN /\ file' = [exists |-> TRUE, content |-> tick.buf]
            /\ TickFinish("ok", TRUE, FALSE)
       ELSE /\ file' = file
            /\ TickFinish("storage", FALSE, TRUE)
    /\ last' = NoCall
    /\ stored' = NoStored
    /\ UNCHANGED <<now, tokenData, issued, served, pc, wbuf, logoutPc, cb, loadPc,
                   rejected, afterRej, loggedOut, refreshIntervalId, timers>>
    /\ reply' = NoReply
    /\ durable' = IF written THEN NoDurable ELSE durable
    /\ writeFailed' = (writeFailed \/ ~written)
    /\ UNCHANGED <<configured, mi>>

----------------------------------------------------------------------------

Next ==
    \/ Tick
    \/ LoadAccess
    \/ LoadRead
    \/ \E c \in Callers : GetValidTokens(c)
    \/ \E c \in Callers : \E resp \in RefreshResponses(issued) : RefreshResponds(c, resp)
    \/ \E c \in Callers : \E written \in BOOLEAN : UpdateWritten(c, written)
    \/ LogoutClear
    \/ LogoutUnlinked
    \/ \E code \in {1, Undefined} : \E realmId \in {1, Undefined} :
          CallbackStart(code, realmId)
    \/ \E resp \in CodeResponses(issued) : CallbackExchanged(resp)
    \/ CallbackSave
    \/ \E written \in BOOLEAN : CallbackWritten(written)
    \/ AutoRefreshStart
    \/ AutoRefreshStop
    \/ ScheduleDirect
    \/ \E id \in timers : TimerFires(id)
    \/ \E resp \in RefreshResponses(issued) : TimerRefreshResponds(resp)
    \/ \E written \in BOOLEAN : TimerUpdateWritten(written)
    \/ Status

Spec == Init /\ [][Next]_vars

\* What the runtime guarantees: a file-system call that was started settles,
\* and code that is ready to run on the event loop runs. Nothing makes the
\* issuer answer (axios.post is given no timeout), and nothing makes a
\* request or a timer callback arrive.
LocalProgress ==
    /\ WF_vars(LoadAccess)
    /\ WF_vars(LoadRead)
    /\ WF_vars(\E c \in Callers : \E written \in BOOLEAN : UpdateWritten(c, written))
    /\ WF_vars(LogoutUnlinked)
    /\ WF_vars(CallbackSave)
    /\ WF_vars(\E written \in BOOLEAN : CallbackWritten(written))
    /\ WF_vars(\E written \in BOOLEAN : TimerUpdateWritten(written))

SpecFair == Spec /\ LocalProgress

----------------------------------------------------------------------------
(* The store and the auth routes over process restarts: requests come only *)
(* through the routes, the token file left by an earlier run may be        *)
(* anything, and the OAuth configuration may be incomplete.                 *)

RouteFiles == InitFiles \cup {[exists |-> TRUE, content |-> Garbage]}

InitRoutes ==
    /\ now = StartMs
    /\ tokenData = EmptyTokens
    /\ file \in RouteFiles
    /\ issued = 1
    /\ served = 0
    /\ pc = [c \in Callers |-> "idle"]
    /\ last = NoCall
    /\ wbuf = [c \in Callers |-> ToJSON(EmptyTokens)]
    /\ logoutPc = "idle"
    /\ cb = CbIdle
    /\ loadPc = "access"
    /\ rejected = FALSE
    /\ afterRej = [c \in Callers |-> FALSE]
    /\ loggedOut = FALSE
    /\ stored = NoStored
    /\ refreshIntervalId = Null
    /\ timers = {}
    /\ tick = TickIdle
    /\ tickDone = NoTick
    /\ configured \in BOOLEAN
    /\ reply = NoReply
    /\ durable = NoDurable
    /\ writeFailed = FALSE
    /\ mi = MiIdle

NextRoutes ==
    \/ Tick
    \/ LoadAccess
    \/ LoadRead
    \/ LogoutClear
    \/ LogoutUnlinked
    \/ \E code \in {1, Undefined} : \E realmId \in {1, Undefined} :
          CallbackStart(code, realmId)
    \/ \E resp \in CodeResponses(issued) : CallbackExchanged(resp)
    \/ CallbackSave
    \/ \E written \in BOOLEAN : CallbackWritten(written)
    \/ AutoRefreshStart
    \/ AutoRefreshStop
    \/ \E id \in timers : TimerFires(id)
    \/ \E resp \in RefreshResponses(issued) : TimerRefreshResponds(resp)
    \/ \E written \in BOOLEAN : TimerUpdateWritten(written)
    \/ Status
    \/ Restart

SpecRoutes == InitRoutes /\ [][NextRoutes]_vars

-----------------------------------------------------------------------------
(* getMultipleInvoices, lib/ai-tools.js *)

\* getQboClientOrError has settled for the tool caller and no list is being
\* worked on: the continuation of line 127 is the next thing to run
MiReady == last.caller = "tool" /\ last.cause # "none" /\ mi.pc = "idle"

\* lines 127-142: a rejected getQboClientOrError ends the call; otherwise the
\* results object is set up and the loop awaits the answer for the first ID
MiEnter(invoiceIds) ==
    /\ MiReady
    /\ IF last.out.kind = "proceed"
       THEN /\ mi' = Completed([MiIdle EXCEPT !.pc = "loop",
                                              !.ids = invoiceIds,
                                              !.i = 1,
                                              !.summary.totalRequested = Len(invoiceIds)])
            /\ reply' = IF mi'.pc = "done"
                        THEN Reply("getMultipleInvoices", TRUE, "results")
                        ELSE NoReply
       ELSE /\ mi' = MiIdle
            /\ reply' = Reply("getMultipleInvoices", FALSE, "auth")
    /\ last' = NoCall
    /\ stored' = NoStored
    /\ tickDone' = NoTick
    /\ UNCHANGED <<now, tokenData, file, issued, served, pc, wbuf, logoutPc, cb,
                   loadPc, rejected, afterRej, loggedOut, refreshIntervalId,
                   timers, tick, configured, durable, writeFailed>>

\* qbo.getInvoice answers for ids[i]: lines 156-172, then the next turn of
\* the loop or lines 176-198
MiAnswer(a) ==
    /\ mi.pc = "loop"
    /\ mi' = Completed(Recorded(mi, a))
    /\ reply' = IF mi'.pc = "done"
                THEN Reply("getMultipleInvoices", TRUE, "results")
                ELSE NoReply
    /\ last' = NoCall
    /\ stored' = NoStored
    /\ tickDone' = NoTick
    /\ UNCHANGED <<now, tokenData, file, issued, served, pc, wbuf, logoutPc, cb,
                   loadPc, rejected, afterRej, loggedOut, refreshIntervalId,
                   timers, tick, configured, durable, writeFailed>>

\* line 198: the results object goes to the caller; the call is over
MiReturn ==
    /\ mi.pc = "done"
    /\ mi' = MiIdle
    /\ reply' = NoReply
    /\ last' = NoCall
    /\ stored' = NoStored
    /\ tickDone' = NoTick
    /\ UNCHANGED <<now, tokenData, file, issued, served, pc, wbuf, logoutPc, cb,
                   loadPc, rejected, afterRej, loggedOut, refreshIntervalId,
                   timers, tick, configured, durable, writeFailed>>

\* a continuation of getMultipleInvoices is ready to run
MiRuns == MiReady \/ mi.pc = "done"

\* The tool caller is getMultipleInvoices; what runs on a settled await comes
\* before any other event. The instant stays the start instant: the start
\* files already give getValidTokens each of its outcomes.
NextInvoices ==
    \/ \E invoiceIds \in IdLists : MiEnter(invoiceIds)
    \/ \E a \in Answers : MiAnswer(a)
    \/ MiReturn
    \/ ~MiRuns /\ LoadAccess
    \/ ~MiRuns /\ LoadRead
    \/ ~MiRuns /\ GetValidTokens("tool")
    \/ ~MiRuns /\ \E resp \in RefreshResponses(issued) : RefreshResponds("tool", resp)
    \/ ~MiRuns /\ \E written \in BOOLEAN : UpdateWritten("tool", written)

SpecInvoices == Init /\ [][NextInvoices]_vars

-----------------------------------------------------------------------------
(* The expiry policy on its own: the store holds any credential a token    *)
(* file or an earlier save can have put there, at any instant around the   *)
(* margin, and a caller asks for a valid credential.                       *)

ExpiryInputs ==
    {Null, 0, StartMs + MarginMs - 1, StartMs + MarginMs,
     StartMs + MarginMs + 1, StartMs - TickMs}

CredentialInputs ==
    { [EmptyTokens EXCEPT !.access_token = at, !.refresh_token = rt,
                          !.realm_id = rid, !.expires_at = exp] :
        at \in {Null, Undefined, 1}, rt \in {Null, 1},
        rid \in {Null, Undefined, 1}, exp \in ExpiryInputs }

InitExpiry ==
    /\ now \in {StartMs, StartMs + TickMs}
    /\ tokenData \in CredentialInputs
    /\ file = NoFile
    /\ issued = 1
    /\ served = 0
    /\ pc = [c \in Callers |-> "idle"]
    /\ last = NoCall
    /\ wbuf = [c \in Callers |-> ToJSON(EmptyTokens)]
    /\ logoutPc = "idle"
    /\ cb = CbIdle
    /\ loadPc = "done"
    /\ rejected = FALSE
    /\ afterRej = [c \in Callers |-> FALSE]
    /\ loggedOut = FALSE
    /\ stored = NoStored
    /\ refreshIntervalId = Null
    /\ timers = {}
    /\ tick = TickIdle
    /\ tickDone = NoTick
    /\ configured = TRUE
    /\ reply = NoReply
    /\ durable = NoDurable
    /\ writeFailed = FALSE
    /\ mi = MiIdle

NextExpiry == \E c \in Callers : GetValidTokens(c)

SpecExpiry == InitExpiry /\ [][NextExpiry]_vars

----------------------------------------------------------------------------
(* Properties *)

TerminalCauses == {"http400", "http401"}
TransientCauses == {"network", "http5xx", "malformed", "storage"}
ReauthErrors == {ErrInvalidRefresh, ErrUnauthorized, ErrNoRefreshToken, ErrNoTokens}

\* C1: concurrent getValidTokens calls against a stale credential share one
\* refresh exchange: at no time are two refresh requests of getValidTokens
\* callers outstanding at the issuer.
C1_SingleRefreshInFlight ==
    Cardinality({c \in Callers : pc[c] = "awaitIssuer"}) <= 1

\* C2: when the issuer answers a refresh with 400 or 401, the call ends with
\* the store cleared (memory empty, token file removed, no valid tokens) and
\* a re-authentication-required error.
C2_TerminalRejectionClearsStore ==
    last.cause \in TerminalCauses =>
        /\ ~last.result.ok
        /\ last.result.msg \in ReauthErrors
        /\ tokenData = EmptyTokens
        /\ ~file.exists
        /\ ~hasValidTokens(tokenData, now)

\* C3: a refresh that fails recoverably (no HTTP response, or a 5xx answer)
\* makes getValidTokens throw the "Token refresh failed" error, and neither
\* the step that sent the request nor the step that failed writes any field
\* of the in-memory credential or touches the token file.
C3_RecoverableFailureLeavesStore ==
    [][ /\ (last'.cause \in {"network", "http5xx"} =>
              /\ last'.result = Thrown(ErrRefreshFailed)
              /\ tokenData' = tokenData
              /\ file' = file)
        /\ (\A c \in Callers :
              pc[c] = "idle" /\ pc'[c] = "awaitIssuer" =>
                  tokenData' = tokenData /\ file' = file) ]_vars

C3_Witness ==
    /\ last.cause = "network"
    /\ last.result = Thrown(ErrRefreshFailed)
    /\ tokenData.access_token = 1
    /\ file.exists

\* C4: the error getValidTokens throws matches the cause of the failure: a
\* 400/401 answer is never reported as "Token refresh failed", and a network
\* error, a 5xx, a malformed success body or a failed write is never
\* reported with one of the re-authentication messages.
C4_FailureKindMatchesCause ==
    /\ last.cause \in TerminalCauses =>
          ~last.result.ok /\ last.result.msg # ErrRefreshFailed
    /\ last.cause \in TransientCauses =>
          ~last.result.ok /\ last.result.msg \notin ReauthErrors

C4_Witness ==
    /\ last.cause = "http401"
    /\ last.result = Thrown(ErrUnauthorized)

\* C5: at the boundary, the outcome of a transient refresh failure differs
\* from the outcome that tells the user to re-authenticate (the one an
\* empty store produces).
C5_TransientDistinguishable ==
    last.cause \in TransientCauses =>
        last.out # Boundary(last.caller, Thrown(ErrNoTokens))

\* C6: a getValidTokens call that begins after a terminal rejection, with no
\* authorization-code exchange saved since, fails with a
\* re-authentication-required error; it never returns a credential.
C6_RejectedUntilReauthorized ==
    last.afterRej => ~last.result.ok /\ last.result.msg \in ReauthErrors

\* C7: once a logout has completed and left the credential empty in memory
\* and absent on disk, it stays so until a new authorization-code exchange
\* is saved: no later step (such as the store write of a refresh that was
\* awaiting the issuer) puts tokens back.
C7_LogoutStaysCleared ==
    [][ (loggedOut /\ tokenData = EmptyTokens /\ ~file.exists /\ loggedOut') =>
            (tokenData' = EmptyTokens /\ ~file'.exists) ]_vars

\* C8: the in-memory credential is empty (no access_token) or complete
\* (access_token and realm_id), never an access_token without a realm_id.
C8_EmptyOrComplete ==
    Truthy(tokenData.access_token) => Truthy(tokenData.realm_id)

\* C9: the credential getValidTokens returns (the tokenData of the state the
\* call completes in) satisfies hasValidTokens at that instant.
C9_ReturnedCredentialValid ==
    last.result.ok => hasValidTokens(tokenData, now)

C11_RefreshMergeFrame ==
    [][ stored'.op = "update" =>
          /\ tokenData'.access_token = stored'.data.access_token
          /\ (Truthy(stored'.data.refresh_token) =>
                 tokenData'.refresh_token = stored'.data.refresh_token)
          /\ (~Truthy(stored'.data.refresh_token) =>
                 tokenData'.refresh_token = tokenData.refresh_token)
          /\ tokenData'.realm_id = tokenData.realm_id
          /\ tokenData'.token_type = tokenData.token_type
          /\ tokenData'.scope = tokenData.scope ]_vars

\* the second refresh in a row whose response has no refresh_token: the
\* record's original refresh_token is still stored
C11_Witness ==
    /\ stored.op = "update"
    /\ ~Truthy(stored.data.refresh_token)
    /\ stored.data.access_token = 3
    /\ tokenData = [StaleRecord EXCEPT !.access_token = 3, !.last_updated = now]

\* C12: after a token response without expires_in is stored, by saveTokens
\* or by updateTokens, the credential has no expires_at and is not stale.
C12_NoLifetimeMeansNoExpiry ==
    (stored.op # "none" /\ ~Truthy(stored.data.expires_in)) =>
        (~Truthy(tokenData.expires_at) /\ ~isTokenExpired(tokenData, now))

C14_RefreshOnlyWhenCompleteAndStale ==
    [][ \A c \in Callers :
          (pc[c] = "idle" /\ pc'[c] = "awaitIssuer") =>
              /\ Truthy(tokenData.access_token)
              /\ Truthy(tokenData.realm_id)
              /\ Truthy(tokenData.refresh_token)
              /\ Truthy(tokenData.expires_at)
              /\ now > tokenData.expires_at - MarginMs ]_vars

\* C15: a getValidTokens call made when the credential is valid returns in
\* the same step: no request goes to the issuer, nothing is written, memory
\* and the token file are as they were.
C15_ValidReturnsWithoutIO ==
    [][ \A c \in Callers :
          ( /\ pc[c] = "idle"
            /\ (pc'[c] = "awaitIssuer" \/ last'.caller = c)
            /\ Truthy(tokenData.access_token)
            /\ Truthy(tokenData.realm_id)
            /\ (~Truthy(tokenData.expires_at)
                \/ now <= tokenData.expires_at - MarginMs) )
          => /\ pc' = pc
             /\ last'.caller = c
             /\ last'.result.ok
             /\ tokenData' = tokenData
             /\ file' = file
             /\ issued' = issued
             /\ wbuf' = wbuf ]_vars

C15_Witness ==
    /\ last.cause = "valid"
    /\ last.result.ok
    /\ file.exists
    /\ FromJSON(file.content).access_token = tokenData.access_token

\* C16: when the file write of a refresh fails, the call fails and memory
\* does not hold the access_token that could not be saved.
C16_FailedWriteLeavesMemory ==
    [][ \A c \in Callers :
          (pc[c] = "awaitWrite" /\ last'.caller = c /\ last'.cause = "storage") =>
              /\ ~last'.result.ok
              /\ tokenData'.access_token # wbuf[c].access_token ]_vars

\* C17: every getValidTokens call that has sent a refresh request eventually
\* completes (returns or throws), whether or not the issuer ever answers.
C17_RefreshEventuallyCompletes ==
    \A c \in Callers : (pc[c] = "awaitIssuer") ~> (pc[c] # "awaitIssuer")

\* C18: at most one refresh interval timer is active, whatever starts and
\* stops came before.
C18_AtMostOneTimer ==
    Cardinality(timers) <= 1

\* C19: an interval callback that completes, whatever its refresh ended
\* with, raises nothing (no thrown error, no rejected promise) and leaves
\* the set of active timers as it was.
C19_TickNeverRaises ==
    [][ tickDone'.cause # "none" =>
            (~tickDone'.raised /\ timers' = timers) ]_vars

C19_Witness ==
    /\ tickDone.cause = "http400"
    /\ ~tickDone.raised
    /\ ~tickDone.returned
    /\ timers # {}

\* C20: in every state of the store, the interval callback sends a refresh
\* request exactly when a getValidTokens call made in that state would.
C20_TickRefreshesAsGetValidTokens ==
    checkNeedsRefresh(tokenData, now) <=> getValidNeedsRefresh(tokenData, now)

\* C21: a loadTokens that reads the file saveTokens last wrote, as after a
\* restart, returns and puts in memory a credential equal field by field to
\* the complete credential saveTokens built; expires_at is the epoch value
\* computed at save time.
C21_SaveLoadRoundTrip ==
    [][ ( /\ loadPc = "read" /\ reply'.route = "loadTokens"
          /\ durable.state = "landed"
          /\ Truthy(durable.obj.access_token)
          /\ Truthy(durable.obj.realm_id) )
        => /\ reply'.ok
           /\ tokenData' = durable.obj
           /\ tokenData'.expires_at = durable.obj.expires_at ]_vars

\* loaded after a restart, one tick after the save, with its expiry
C21_Witness ==
    /\ reply.route = "loadTokens"
    /\ reply.ok
    /\ durable.state = "landed"
    /\ tokenData = durable.obj
    /\ Truthy(tokenData.expires_at)
    /\ now > tokenData.last_updated

\* C22: loadTokens never raises; when the file is absent, unreadable,
\* unparseable or lacks access_token or realm_id it returns null and the
\* in-memory credential is as it was; when it returns tokens they have
\* access_token and realm_id.
C22_LoadNeverFails ==
    [][ reply'.route = "loadTokens" =>
          /\ reply'.why \in {"absent", "unreadable", "unparseable", "invalid", "loaded"}
          /\ (reply'.why # "loaded" => ~reply'.ok /\ tokenData' = tokenData)
          /\ (reply'.ok => Truthy(tokenData'.access_token)
                             /\ Truthy(tokenData'.realm_id)) ]_vars

\* an unparseable file read while memory already holds a credential
C22_Witness ==
    /\ reply.route = "loadTokens"
    /\ reply.why = "unparseable"
    /\ ~reply.ok
    /\ Truthy(tokenData.access_token)

C24_NoIssuerCallUnconfigured ==
    ~configured =>
        /\ cb.pc # "awaitExchange"
        /\ tick.pc # "awaitIssuer"
        /\ \A c \in Callers : pc[c] # "awaitIssuer"

TokenValues == 1 .. (MaxServed + 1)

\* C25: the snapshot /auth/status sends is the one any other pair of
\* access_token and refresh_token values in the same store state would give.
C25_SnapshotHidesTokenValues ==
    ( /\ reply.route = "status" /\ reply.ok
      /\ Truthy(tokenData.access_token)
      /\ Truthy(tokenData.refresh_token) )
    => \A a \in TokenValues : \A r \in TokenValues :
          getTokenInfo([tokenData EXCEPT !.access_token = a,
                                         !.refresh_token = r], now) = reply.info

C25_Witness ==
    /\ reply.route = "status"
    /\ reply.ok
    /\ reply.info.hasTokens = TRUE
    /\ reply.info.hasRefreshToken = TRUE
    /\ Truthy(reply.info.expiresAt)

\* C26: a stop (auto-refresh stop, or logout) leaves no timer active and
\* refreshIntervalId null; an auto-refresh stop succeeds and touches neither
\* the store nor a callback in flight, and with no timer running it changes
\* nothing; an interval callback starts only while a timer is active.
C26_StopIdempotent ==
    [][ /\ ( (reply'.route = "autoStop"
              \/ (logoutPc = "idle" /\ logoutPc' = "awaitUnlink")) =>
                (timers' = {} /\ refreshIntervalId' = Null) )
        /\ ( reply'.route = "autoStop" =>
                /\ reply'.ok
                /\ tokenData' = tokenData /\ file' = file /\ tick' = tick
                /\ ( (timers = {} /\ refreshIntervalId = Null) =>
                        (timers' = timers /\ refreshIntervalId' = refreshIntervalId) ) )
        /\ ( (tick.pc = "idle" /\ (tick'.pc # "idle" \/ tickDone'.cause # "none")) =>
                timers # {} ) ]_vars

\* a stop right after a callback that saved tokens and started the timer
C26_Witness ==
    /\ reply.route = "autoStop"
    /\ reply.ok
    /\ served = 2
    /\ durable.state = "landed"
    /\ timers = {}
    /\ refreshIntervalId = Null


\* no saveTokens, updateTokens, clearTokens or loadTokens is between its
\* first statement and its return
StoreQuiescent ==
    /\ loadPc = "done"
    /\ logoutPc = "idle"
    /\ cb.pc \in {"idle", "awaitExchange"}
    /\ tick.pc # "awaitWrite"
    /\ \A c \in Callers : pc[c] # "awaitWrite"

\* the token file holds a record loadTokens accepts
DurableRecordValid ==
    file.exists =>
        /\ Parses(file.content)
        /\ Truthy(FromJSON(file.content).access_token)
        /\ Truthy(FromJSON(file.content).realm_id)

\* C28: whenever no store operation is in progress and no write has failed,
\* the in-memory credential and the token file agree: both empty/absent, or
\* equal field by field.
C28_MemoryEqualsDurable ==
    (StoreQuiescent /\ ~writeFailed /\ DurableRecordValid) =>
        IF file.exists
        THEN \A f \in Fields : tokenData[f] = FromJSON(file.content)[f]
        ELSE \A f \in Fields : tokenData[f] = Null

\* C29: refreshIntervalId is non-null exactly when an interval timer is
\* active, and then it is that timer; the autoRefresh.enabled value
\* /auth/status sends is true exactly when a timer is active.
C29_IntervalIdTracksTimer ==
    /\ Truthy(refreshIntervalId) => timers = {refreshIntervalId}
    /\ ~Truthy(refreshIntervalId) => (refreshIntervalId = Null /\ timers = {})
    /\ (reply.route = "status" /\ reply.ok) => (reply.enabled <=> timers # {})

\* /auth/status reporting the timer an earlier request started
C29_Witness ==
    /\ reply.route = "status"
    /\ reply.ok
    /\ reply.enabled
    /\ timers = {refreshIntervalId}

\* C30: an /auth/callback that fails before the store is written (no code,
\* incomplete configuration, non-success answer of the issuer) leaves the
\* in-memory credential, the token file, the timers and refreshIntervalId
\* as they were; the callback writes the credential, and starts the timer,
\* only after an exchange answered with success.
C30_FailedCallbackChangesNothing ==
    [][ /\ ( ( /\ reply'.route = "callback" /\ ~reply'.ok
               /\ reply'.why \in {"nocode", "config", "exchange"} ) =>
                UNCHANGED <<tokenData, file, timers, refreshIntervalId>> )
        /\ ( (cb.pc = "awaitExchange" /\ cb'.pc \notin {"idle", "awaitExchange"}) =>
                cb'.status = 200 )
        /\ ( (cb.pc # "idle" /\ cb'.pc # "idle"
              /\ (tokenData' # tokenData \/ file' # file)
              /\ cb' # cb) => cb.status = 200 )
        /\ ( (reply'.route = "callback" /\ reply'.ok) =>
                (cb.status = 200 /\ timers' = {refreshIntervalId'}) ) ]_vars

\* a refused exchange while a credential is stored and a timer is running
C30_Witness ==
    /\ reply.route = "callback"
    /\ reply.why = "exchange"
    /\ ~reply.ok
    /\ Truthy(tokenData.access_token)
    /\ file.exists
    /\ timers # {}


Count(seq, x) == Cardinality({k \in DOMAIN seq : seq[k] = x})

FoundIds == [k \in DOMAIN mi.found |-> mi.found[k].Id]

ErrorIds == [k \in DOMAIN mi.errors |-> mi.errors[k].invoiceId]

\* C27: when getMultipleInvoices returns its results, every requested ID
\* has been put in exactly one of found, notFound and errors, the three
\* counts add up to totalRequested, and each count is the length of its list.
C27_PartialResultsPartition ==
    mi.pc = "done" =>
        /\ mi.summary.totalRequested = Len(mi.ids)
        /\ mi.summary.found + mi.summary.notFound + mi.summary.errors
             = mi.summary.totalRequested
        /\ mi.summary.found = Len(mi.found)
        /\ mi.summary.notFound = Len(mi.notFound)
        /\ mi.summary.errors = Len(mi.errors)
        /\ \A id \in InvoiceIds :
             Count(mi.ids, id)
               = Count(FoundIds, id) + Count(mi.notFound, id) + Count(ErrorIds, id)

\* the first ID fails with an error, the second is still fetched and found
C27_Witness ==
    /\ mi.pc = "done"
    /\ Len(mi.ids) = 2
    /\ Len(mi.errors) = 1
    /\ Len(mi.found) = 1
    /\ mi.errors[1].invoiceId = mi.ids[1]
    /\ mi.found[1].Id = mi.ids[2]

====
